---------------------------- MODULE Spec2Model ----------------------------
(***************************************************************************)
(* A model of ezdb (src/ezdb.go): a Client owning one lazily opened LMDB    *)
(* environment behind a sync.Once, and generic DBRef[K, V] references that  *)
(* put and get gob-encoded values in named sub-databases of it.             *)
(*                                                                          *)
(* Goroutines run Init in three steps (entering initOnce.Do, the function   *)
(* passed to Do, the code after Do); Put, Get and Close are one step each:  *)
(* a Put is one Update transaction, a Get one View transaction.             *)
(* A panic ends the call; the caller is taken to recover it, so the state   *)
(* the panic leaves behind stays observable.                                *)
(***************************************************************************)
EXTENDS Integers, Sequences, FiniteSets, TLC

\* ---- bounds of the model ----
MaxKey == 1            \* keys are 1..MaxKey
NumDbsA == 2           \* client A is built with WithNumDBs(NumDbsA)
MaxOpens == 2          \* cap of the counter of executions of the open logic

\* ---- program constants ----
DefaultNumDbs == 1     \* New: *o.numDbs = 1
MDB_CREATE == 262144   \* lmdb.DatabaseFlag(0x40000), the creation flag
NoFlag == 0            \* lmdb.DatabaseFlag(0)

\* ---- the universe ----
Clients == {"A", "B"}
Refs == {"r1", "r2"}
Ids == {"a", "b"}
Procs == {"g1", "g2"}
Keys == 1..MaxKey
Vals == {0, 1}         \* the zero value of V and one other value

\* New(path, opts...): the configured number of sub-databases of a client.
NumDbs(c) == IF c = "A" THEN NumDbsA ELSE DefaultNumDbs

\* DBRef[K, V]: the type parameters of each reference.
KeyType(r) == "string"
ValType(r) == IF r = "r1" THEN "string" ELSE "int"

\* new(V): the zero value of a type.
Zero(t) == 0

\* ---- errors ----
Nil == <<>>
ErrPutFailed == "failed to put key"
ErrGetFailed == "failed to get key"
\* errors.Join(sentinel, cause)
Join(sentinel, cause) == <<sentinel, cause>>
\* errors.Is(err, target)
Is(err, target) == \E i \in 1..Len(err) : err[i] = target
\* a panic that reaches the caller
Panic(msg) == <<"panic", msg>>
IsPanic(err) == Len(err) > 0 /\ err[1] = "panic"

\* ---- encode / decode (encoding/gob): a stream is the type, then the value ----
Encodable == {"string", "int"}
EncodeOK(t) == t \in Encodable
encode(t, x) == <<t, x>>
DecodeOK(t, bytes) == bytes[1] = t
decodeDiscard(t, bytes) == 0
decode(t, bytes) == bytes[2]

\* ---- the engine (golmdb), as ezdb calls it ----
\* txn.DBRef(name, flags): resolves a registered name; registers a new one
\* only with the creation flag and while the environment has room for it.
DBRefOKNoCap(names, name, flags, cap) == name \in names \/ flags = MDB_CREATE
DBRefOK(names, name, flags, cap) ==
    \/ name \in names
    \/ flags = MDB_CREATE /\ Cardinality(names) < cap
DBRefNames(names, name, flags, cap) ==
    IF DBRefOK(names, name, flags, cap) THEN names \cup {name} ELSE names

\* txn.Put(dbRef, key, val, PutFlag(0)): overwrites the entry of the key.
TxnPut(sub, kb, vb) == {e \in sub : e[1] # kb} \cup {<<kb, vb>>}
\* txn.Get(dbRef, key)
TxnHas(sub, kb) == \E e \in sub : e[1] = kb
TxnGet(sub, kb) == (CHOOSE e \in sub : e[1] = kb)[2]

VARIABLES
    db,      \* Client.db: "nil" or "conn"
    once,    \* Client.initOnce: "new", "running" (f is executing), "done"
    term,    \* the connection was terminated (TerminateSync)
    dbs,     \* the names registered in each client's environment
    data,    \* the entries <<key bytes, value bytes>> of each sub-database
    ref,     \* DBRef: [id, ownerDB]
    pc,      \* where each goroutine is in Init
    call,    \* the arguments of the Init a goroutine is running
    ret,     \* the most recent return of a call
    opens,   \* history: executions of the function passed to initOnce.Do
    seen,    \* history: what the Init calls racing on an unopened client saw of its open
    last     \* history: the last value successfully put under each key

vars == <<db, once, term, dbs, data, ref, pc, call, ret, opens, seen, last>>

ZeroRef == [id |-> "", ownerDB |-> "nil"]
NoCall == [r |-> "-", id |-> "", c |-> "-", early |-> FALSE]
Never == <<>>
\* A return: the call (op, r, c, id, k), the value and error returned, and
\* for the history what the call found (the entry a Put replaced, whether
\* the name an Init resolved was registered already) and the transactions
\* a Put or Get ran, each <<kind, end>>.
Ret(op, r, c, id, k, v, err, old) ==
    [op |-> op, r |-> r, c |-> c, id |-> id, k |-> k, v |-> v, err |-> err, old |-> old,
     txn |-> <<>>]
NoRet == Ret("none", "-", "nil", "", 0, 0, Nil, Never)

Init ==
    /\ db = [c \in Clients |-> "nil"]
    /\ once = [c \in Clients |-> "new"]
    /\ term = [c \in Clients |-> FALSE]
    /\ dbs = [c \in Clients |-> {}]
    /\ data = [c \in Clients |-> [i \in Ids |-> {}]]
    /\ ref = [r \in Refs |-> ZeroRef]
    /\ pc = [p \in Procs |-> "idle"]
    /\ call = [p \in Procs |-> NoCall]
    /\ ret = NoRet
    /\ opens = [c \in Clients |-> 0]
    /\ seen = [c \in Clients |-> {}]
    /\ last = [c \in Clients |-> [i \in Ids |-> [k \in Keys |-> Never]]]

\* ref.Init(refID, db) is called by goroutine p. early: the call starts
\* before the client's open has completed.
CallInit(p, r, id, c) ==
    /\ pc[p] = "idle"
    /\ pc' = [pc EXCEPT ![p] = "do"]
    /\ call' = [call EXCEPT ![p] = [r |-> r, id |-> id, c |-> c, early |-> once[c] # "done"]]
    /\ UNCHANGED <<db, once, term, dbs, data, ref, ret, opens, seen, last>>

\* What a racing call saw of the open is recorded in seen.
Saw(p, what) ==
    IF call[p].early THEN [seen EXCEPT ![call[p].c] = @ \cup {what}] ELSE seen

\* sync.Once: the caller that finds the Once new runs f.
MustOpenUnguarded(c) == db[c] = "nil"
MustOpenGlobal(c) == \A c2 \in Clients : once[c2] = "new"
MustOpenAfterClose(c) == once[c] = "new" \/ (once[c] = "done" /\ term[c])
MustOpen(c) == once[c] = "new"

\* db.initOnce.Do(f): the first caller runs f; a caller arriving while f runs
\* waits for it; a caller arriving after it returns at once.
OnceDo(p) ==
    /\ pc[p] = "do"
    /\ IF MustOpen(call[p].c)
       THEN /\ once' = [once EXCEPT ![call[p].c] = "running"]
            /\ pc' = [pc EXCEPT ![p] = "open"]
       ELSE /\ once[call[p].c] # "running"
            /\ pc' = [pc EXCEPT ![p] = "afterdo"]
            /\ UNCHANGED once
    /\ UNCHANGED <<db, term, dbs, data, ref, call, ret, opens, seen, last>>

\* sync.Once: Do marks the Once done when f returns and when f panics.
OnceAfterRetry(outcome) == IF outcome = "ok" THEN "done" ELSE "new"
OnceAfter(outcome) == "done"

\* The function passed to Do: os.MkdirAll and lmdb.NewLMDB. A failure of
\* either panics out of Do and out of Init.
OpenOutcomes == {"ok", "failed to create db directory", "failed to open db"}
OpenEnv(p, outcome) ==
    /\ pc[p] = "open"
    /\ opens[call[p].c] < MaxOpens
    /\ opens' = [opens EXCEPT ![call[p].c] = @ + 1]
    /\ once' = [once EXCEPT ![call[p].c] = OnceAfter(outcome)]
    /\ IF outcome = "ok"
       THEN /\ db' = [db EXCEPT ![call[p].c] = "conn"]
            /\ pc' = [pc EXCEPT ![p] = "afterdo"]
            /\ UNCHANGED <<call, ret, seen>>
       ELSE /\ pc' = [pc EXCEPT ![p] = "idle"]
            /\ call' = [call EXCEPT ![p] = NoCall]
            /\ ret' = Ret("Init", call[p].r, call[p].c, call[p].id, 0, 0,
                          Panic(outcome), Never)
            /\ seen' = Saw(p, Panic(outcome))
            /\ UNCHANGED db
    /\ UNCHANGED <<term, dbs, data, ref, last>>

\* The Update transaction of initRef: txn.DBRef(refID, 0x40000). A
\* terminated connection runs no transaction.
InitRefOKExclusive(c, id) ==
    ~term[c] /\ id \notin dbs[c] /\ DBRefOK(dbs[c], id, MDB_CREATE, NumDbs(c))
InitRefOK(c, id) == ~term[c] /\ DBRefOK(dbs[c], id, MDB_CREATE, NumDbs(c))

\* The rest of initRef: the nil check of db.db, the Update transaction that
\* resolves the sub-database with the creation flag, the binding of *ref.
InitRef(p) ==
    LET c == call[p].c
        r == call[p].r
        id == call[p].id
        was == IF id \in dbs[c] THEN <<"registered">> ELSE Never
    IN  /\ pc[p] = "afterdo"
        /\ pc' = [pc EXCEPT ![p] = "idle"]
        /\ call' = [call EXCEPT ![p] = NoCall]
        /\ IF db[c] = "nil"
           THEN /\ ret' = Ret("Init", r, c, id, 0, 0,
                              <<"failed to initialize database">>, Never)
                /\ seen' = Saw(p, <<"failed to initialize database">>)
                /\ UNCHANGED <<dbs, ref>>
           ELSE /\ seen' = Saw(p, Nil)
                /\ IF InitRefOK(c, id)
                   THEN /\ dbs' = [dbs EXCEPT ![c] = DBRefNames(@, id, MDB_CREATE, NumDbs(c))]
                        /\ ref' = [ref EXCEPT ![r] = [id |-> id, ownerDB |-> c]]
                        /\ ret' = Ret("Init", r, c, id, 0, 0, Nil, was)
                   ELSE /\ ret' = Ret("Init", r, c, id, 0, 0,
                                      <<"failed to open db ref">>, was)
                        /\ UNCHANGED <<dbs, ref>>
        /\ UNCHANGED <<db, once, term, data, opens, last>>

\* The name Put and Get resolve: txn.DBRef(ref.id, 0).
TargetFixed(r) == "a"
Target(r) == ref[r].id

\* What the function Put passes to Update returns: "" for nil.
PutCause(r, c, engineOK) ==
    IF term[c] THEN "terminated"
    ELSE IF ~DBRefOK(dbs[c], Target(r), NoFlag, NumDbs(c)) THEN "failed to get db ref: MDB_NOTFOUND"
    ELSE IF ~EncodeOK(KeyType(r)) THEN "failed to encode key: gob"
    ELSE IF ~EncodeOK(ValType(r)) THEN "failed to encode value: gob"
    ELSE IF ~engineOK THEN "failed to put key: MDB error"
    ELSE ""

\* The sub-database a committed Put leaves behind.
PutDataKeepFirst(r, sub, k, v) ==
    IF TxnHas(sub, encode(KeyType(r), k)) THEN sub
    ELSE TxnPut(sub, encode(KeyType(r), k), encode(ValType(r), v))
PutData(r, sub, k, v) == TxnPut(sub, encode(KeyType(r), k), encode(ValType(r), v))

\* The entry of a key, as the history keeps it: <<type, value>>, or Never.
Entry(sub, kb) == IF TxnHas(sub, kb) THEN TxnGet(sub, kb) ELSE Never

\* The sub-database a Put leaves behind when the function it passes to
\* Update returns an error: the transaction is aborted.
AbortedKeepsWrite(r, sub, k, v) == TxnPut(sub, encode(KeyType(r), k), encode(ValType(r), v))
Aborted(r, sub, k, v) == sub

\* The connection after a Put or Get: the error path only wraps the error.
TermAfterCloseOnError(c, cause) == IF cause # "" THEN [term EXCEPT ![c] = TRUE] ELSE term
TermAfter(c, cause) == term

\* The transactions a Put runs: the one Update. A terminated connection
\* returns its error without running the function.
PutTxnsRetry(cause) ==
    IF cause = "terminated" THEN <<>>
    ELSE IF cause = "" THEN << <<"rw", "commit">> >>
    ELSE << <<"rw", "abort">>, <<"rw", "abort">> >>
PutTxns(cause) ==
    IF cause = "terminated" THEN <<>>
    ELSE << <<"rw", IF cause = "" THEN "commit" ELSE "abort">> >>

\* The error Put returns for the error of Update.
PutErrAsGet(cause) == IF cause = "" THEN Nil ELSE Join(ErrGetFailed, cause)
PutErr(cause) == IF cause = "" THEN Nil ELSE Join(ErrPutFailed, cause)

\* ref.Put(&k, &v). engineOK: whether txn.Put accepts the write.
Put(r, k, v, engineOK) ==
    LET c == ref[r].ownerDB
        id == Target(r)
        cause == PutCause(r, c, engineOK)
    IN  /\ IF c = "nil"
           THEN /\ ret' = Ret("Put", r, c, ref[r].id, k, 0,
                              Panic("nil pointer dereference"), Never)
                /\ UNCHANGED <<data, last, term>>
           ELSE /\ data' = [data EXCEPT ![c][id] =
                               IF cause = "" THEN PutData(r, @, k, v)
                               ELSE Aborted(r, @, k, v)]
                /\ last' = IF cause = ""
                           THEN [last EXCEPT ![c][ref[r].id][k] = <<ValType(r), v>>]
                           ELSE last
                /\ term' = TermAfter(c, cause)
                /\ ret' = [Ret("Put", r, c, ref[r].id, k, IF cause = "" THEN v ELSE 0,
                               PutErr(cause),
                               IF cause = "" THEN Entry(data[c][id], encode(KeyType(r), k))
                               ELSE Never)
                           EXCEPT !.txn = PutTxns(cause)]
        /\ UNCHANGED <<db, once, dbs, ref, pc, call, opens, seen>>

\* What the function Get passes to View returns: "" for nil.
GetCause(r, c, k) ==
    IF term[c] THEN "terminated"
    ELSE IF ~DBRefOK(dbs[c], Target(r), NoFlag, NumDbs(c)) THEN "failed to get db ref: MDB_NOTFOUND"
    ELSE IF ~EncodeOK(KeyType(r)) THEN "failed to encode key: gob"
    ELSE IF ~TxnHas(data[c][Target(r)], encode(KeyType(r), k)) THEN "failed to get key: MDB_NOTFOUND"
    ELSE IF ~DecodeOK(ValType(r), TxnGet(data[c][Target(r)], encode(KeyType(r), k)))
         THEN "failed to decode value: gob type mismatch"
    ELSE ""

\* The error Get returns for the error of View.
GetErr(cause) == IF cause = "" THEN Nil ELSE Join(ErrGetFailed, cause)

\* The transactions a Get runs: the one View.
GetTxns(cause) ==
    IF cause = "terminated" THEN <<>>
    ELSE << <<"ro", IF cause = "" THEN "commit" ELSE "abort">> >>

\* What ref.Get(&k) returns on a bound reference: <<value, error>>.
GetResultZeroNil(r, k) ==
    LET c == ref[r].ownerDB
    IN  IF GetCause(r, c, k) # ""
        THEN <<Zero(ValType(r)), Nil>>
        ELSE <<decode(ValType(r), TxnGet(data[c][Target(r)], encode(KeyType(r), k))), Nil>>
GetResult(r, k) ==
    LET c == ref[r].ownerDB
    IN  IF GetCause(r, c, k) # ""
        THEN <<Zero(ValType(r)), GetErr(GetCause(r, c, k))>>
        ELSE <<decode(ValType(r), TxnGet(data[c][Target(r)], encode(KeyType(r), k))), Nil>>

\* ref.Get(&k)
Get(r, k) ==
    /\ IF ref[r].ownerDB = "nil"
       THEN /\ ret' = Ret("Get", r, "nil", ref[r].id, k, 0,
                          Panic("nil pointer dereference"), Never)
            /\ UNCHANGED term
       ELSE /\ ret' = [Ret("Get", r, ref[r].ownerDB, ref[r].id, k,
                           GetResult(r, k)[1], GetResult(r, k)[2], Never)
                       EXCEPT !.txn = GetTxns(GetCause(r, ref[r].ownerDB, k))]
            /\ term' = TermAfter(ref[r].ownerDB, GetCause(r, ref[r].ownerDB, k))
    /\ UNCHANGED <<db, once, dbs, data, ref, pc, call, opens, seen, last>>

\* db.Close(): db.db.TerminateSync()
Close(c) ==
    /\ IF db[c] = "nil"
       THEN /\ ret' = Ret("Close", "-", c, "", 0, 0, Panic("nil pointer dereference"), Never)
            /\ UNCHANGED term
       ELSE /\ term' = [term EXCEPT ![c] = TRUE]
            /\ ret' = Ret("Close", "-", c, "", 0, 0, Nil, Never)
    /\ UNCHANGED <<db, once, dbs, data, ref, pc, call, opens, seen, last>>

\* The calls of Init the goroutines make: g1 owns r1 and g2 owns r2, so no
\* two goroutines write one *ref at a time.
InitCalls == {<<"g1", "r1", "a", "A">>, <<"g1", "r1", "b", "A">>, <<"g2", "r2", "b", "A">>}
Closable == {"A"}

Next ==
    \/ \E x \in InitCalls : CallInit(x[1], x[2], x[3], x[4])
    \/ \E p \in Procs : OnceDo(p)
    \/ \E p \in Procs, o \in OpenOutcomes : OpenEnv(p, o)
    \/ \E p \in Procs : InitRef(p)
    \/ \E r \in Refs, k \in Keys, v \in Vals, e \in BOOLEAN : Put(r, k, v, e)
    \/ \E r \in Refs, k \in Keys : Get(r, k)
    \/ \E c \in Closable : Close(c)

Spec == Init /\ [][Next]_vars

\* Two clients: A, built with WithNumDBs(NumDbsA), and B, built with the
\* default capacity. g1 binds r1 on A and then on B, g2 binds r2 on B.
InitCallsTwo == {<<"g1", "r1", "a", "A">>, <<"g1", "r1", "b", "B">>, <<"g2", "r2", "a", "B">>}
ClosableTwo == {"B"}

NextTwo ==
    \/ \E x \in InitCallsTwo : CallInit(x[1], x[2], x[3], x[4])
    \/ \E p \in Procs : OnceDo(p)
    \/ \E p \in Procs, o \in OpenOutcomes : OpenEnv(p, o)
    \/ \E p \in Procs : InitRef(p)
    \/ \E r \in Refs, k \in Keys, v \in Vals, e \in BOOLEAN : Put(r, k, v, e)
    \/ \E r \in Refs, k \in Keys : Get(r, k)
    \/ \E c \in ClosableTwo : Close(c)

SpecTwo == Init /\ [][NextTwo]_vars

TypeOK ==
    /\ db \in [Clients -> {"nil", "conn"}]
    /\ once \in [Clients -> {"new", "running", "done"}]
    /\ term \in [Clients -> BOOLEAN]
    /\ \A c \in Clients : dbs[c] \subseteq Ids
    /\ pc \in [Procs -> {"idle", "do", "open", "afterdo"}]
    /\ opens \in [Clients -> 0..MaxOpens]

\* ------------------------------------------------------------------------
\* Properties
\* ------------------------------------------------------------------------

\* The handles whose open was executed and failed: the function passed to
\* Do has run and left db.db nil.
Failed(c) == opens[c] > 0 /\ db[c] = "nil"

\* C1: however the Init calls on a client interleave, the function passed to
\* initOnce.Do (directory creation and lmdb.NewLMDB) is executed at most
\* once, and exactly once as soon as one Init call has got past Do.
OpenAtMostOnce ==
    \A c \in Clients :
        /\ opens[c] <= 1
        /\ (once[c] = "done" \/ seen[c] # {}
            \/ \E p \in Procs : pc[p] = "afterdo" /\ call[p].c = c) => opens[c] = 1

\* C1 witness: two goroutines have each completed an Init on client A (both
\* references are bound to it) and the open logic ran once.
OpenAtMostOnceWitness ==
    /\ ref["r1"].ownerDB = "A"
    /\ ref["r2"].ownerDB = "A"
    /\ Cardinality(seen["A"]) = 1
    /\ opens["A"] = 1

\* C2: the Init calls racing on an unopened client get past Do only once the
\* winner's open attempt is complete, and then all of them, the winner
\* included, observe one and the same outcome of the open.
SameOpenOutcome ==
    /\ \A p \in Procs : pc[p] = "afterdo" => once[call[p].c] = "done"
    /\ \A c \in Clients : Cardinality(seen[c]) <= 1

\* C3: when the open of a client failed, every Init call on it, the one that
\* executed the open included, returns an error to its caller, and no Put
\* or Get through a reference of that client succeeds.
InitFailedReturned ==
    /\ (ret.op = "Init" /\ Failed(ret.c)) => (ret.err # Nil /\ ~IsPanic(ret.err))
    /\ (ret.op \in {"Put", "Get"} /\ ret.c # "nil" /\ Failed(ret.c)) => ret.err # Nil

\* C4: a client whose open failed stays failed: no later step executes the
\* open logic again or sets db.db, and every later Init on it returns the
\* error "failed to initialize database".
FailedStaysFailed ==
    [][\A c \in Clients : Failed(c) =>
          /\ Failed(c)'
          /\ opens'[c] = opens[c]
          /\ (ret' # ret /\ ret'.op = "Init" /\ ret'.c = c)
                => ret'.err = <<"failed to initialize database">>]_vars

\* C4 witness: an Init called after the failed open has returned the error,
\* with the open logic executed once.
FailedStaysFailedWitness ==
    /\ Failed("A")
    /\ opens["A"] = 1
    /\ ret.op = "Init" /\ ret.c = "A"
    /\ ret.err = <<"failed to initialize database">>
    /\ seen["A"] = {Panic("failed to open db")}

KeyBytes(r, k) == encode(KeyType(r), k)

\* C6: last write wins. Every sub-database holds at most one entry per key,
\* that entry is the encoding of the last value successfully put under the
\* key, and a Get through a reference of that value type on the open client
\* would return exactly that value.
LastWriteWins ==
    \A r \in Refs : \A k \in Keys :
        ref[r].ownerDB # "nil" =>
            LET c == ref[r].ownerDB
                id == ref[r].id
                sub == data[c][id]
                l == last[c][id][k]
            IN  /\ Cardinality({e \in sub : e[1] = KeyBytes(r, k)}) <= 1
                /\ TxnHas(sub, KeyBytes(r, k)) <=> l # Never
                /\ l # Never => TxnGet(sub, KeyBytes(r, k)) = encode(l[1], l[2])
                /\ (l # Never /\ l[1] = ValType(r) /\ ~term[c])
                      => GetResult(r, k) = <<l[2], Nil>>

\* C6 witness: a Put has replaced an entry holding another value, and Get
\* now returns the new value.
LastWriteWinsWitness ==
    /\ ret.op = "Put" /\ ret.err = Nil
    /\ ret.old # Never
    /\ ret.old # encode(ValType(ret.r), ret.v)
    /\ ref[ret.r] = [id |-> ret.id, ownerDB |-> ret.c]
    /\ GetResult(ret.r, ret.k) = <<ret.v, Nil>>

\* A step that is a call of Put through reference r.
PutStep(r) == pc' = pc /\ ret'.op = "Put" /\ ret'.r = r

\* C7: isolation. A Put through one reference leaves unchanged what Get
\* returns, for every key, through a reference bound to the same client
\* under another identifier, and leaves that sub-database unchanged.
Isolation ==
    [][\A r \in Refs : \A q \in Refs :
          (/\ PutStep(r)
           /\ ref[r].ownerDB # "nil"
           /\ ref[q].ownerDB = ref[r].ownerDB
           /\ ref[q].id # ref[r].id)
          => /\ data'[ref[q].ownerDB][ref[q].id] = data[ref[q].ownerDB][ref[q].id]
             /\ \A k \in Keys : GetResult(q, k)' = GetResult(q, k)]_vars

\* C7 witness: the two references are bound to client A under different
\* identifiers, both sub-databases hold the same key with different values,
\* and a Get through one has returned its own value.
IsolationWitness ==
    /\ ref["r1"] = [id |-> "a", ownerDB |-> "A"]
    /\ ref["r2"] = [id |-> "b", ownerDB |-> "A"]
    /\ ret.op = "Get" /\ ret.r = "r2" /\ ret.k = 1 /\ ret.err = Nil /\ ret.v = 0
    /\ GetResult("r1", 1) = <<1, Nil>>

\* C8: missing key. A Get of a key that was never put in the reference's
\* sub-database returns a non-nil error that is ErrGetFailed; it never
\* returns a nil error.
MissingKeyFails ==
    (/\ ret.op = "Get"
     /\ ret.c # "nil"
     /\ last[ret.c][ret.id][ret.k] = Never)
    => (ret.err # Nil /\ ~IsPanic(ret.err) /\ Is(ret.err, ErrGetFailed))

\* C8 witness: on an open client, a Get of a key never put has returned the
\* zero value with ErrGetFailed joined to the not-found error.
MissingKeyFailsWitness ==
    /\ ret.op = "Get" /\ ret.c = "A" /\ ~term["A"]
    /\ last["A"][ret.id][ret.k] = Never
    /\ ret.v = 0
    /\ ret.err = Join(ErrGetFailed, "failed to get key: MDB_NOTFOUND")

\* C9: idempotent init. An Init whose identifier is already registered in
\* the open client succeeds, registers nothing, leaves every stored entry as
\* it was and leaves the reference bound to (identifier, client).
IdempotentInit ==
    [][\A p \in Procs :
          (/\ pc[p] = "afterdo" /\ pc'[p] = "idle"
           /\ call[p].id \in dbs[call[p].c]
           /\ ~term[call[p].c])
          => /\ ret'.op = "Init" /\ ret'.err = Nil
             /\ dbs' = dbs
             /\ data' = data
             /\ ref'[call[p].r] = [id |-> call[p].id, ownerDB |-> call[p].c]
             /\ \A q \in Refs \ {call[p].r} : ref'[q] = ref[q]]_vars

\* C9 witness: an Init of an identifier that was registered already, in a
\* sub-database that holds an entry, has succeeded.
IdempotentInitWitness ==
    /\ ret.op = "Init" /\ ret.err = Nil
    /\ ret.old = <<"registered">>
    /\ data[ret.c][ret.id] # {}
    /\ ref[ret.r] = [id |-> ret.id, ownerDB |-> ret.c]

\* C11: a Put or Get through a reference that was never successfully
\* initialized is answered with a returned error: the call does not panic.
UninitializedRefused ==
    (ret.op \in {"Put", "Get"} /\ ret.c = "nil")
    => (ret.err # Nil /\ ~IsPanic(ret.err))

\* A step in which goroutine p returns from Init.
InitReturn(p) == pc[p] \in {"open", "afterdo"} /\ pc'[p] = "idle"

\* C13: an Init that fails at any step (directory creation, engine open,
\* sub-database resolution) returns an error to its caller and records
\* neither the identifier nor the client in the reference.
FailedInitReturnsUnbound ==
    [][\A p \in Procs :
          (InitReturn(p) /\ ret'.err # Nil)
          => (~IsPanic(ret'.err) /\ ref' = ref)]_vars

\* C12: a Put that returns an error leaves the entries of every
\* sub-database, and the registered names, exactly as they were.
FailedPutChangesNothing ==
    [][\A r \in Refs :
          (PutStep(r) /\ ret'.err # Nil) => (data' = data /\ dbs' = dbs)]_vars

\* C12 witness: on a sub-database that holds an entry, a Put whose write the
\* engine refused has returned ErrPutFailed after its transaction aborted.
FailedPutChangesNothingWitness ==
    /\ ret.op = "Put"
    /\ ret.err = Join(ErrPutFailed, "failed to put key: MDB error")
    /\ ret.txn = << <<"rw", "abort">> >>
    /\ data[ret.c][ret.id] # {}

\* A step that is a call of Put or Get through reference r.
AccessStep(r) == pc' = pc /\ ret'.op \in {"Put", "Get"} /\ ret'.r = r

\* C14: on a client that is not closed, a Put or Get that fails leaves the
\* bindings of the references and the connection as they were, and after it
\* a Put the engine accepts and a Get of a stored key of the reference's
\* value type succeed.
FailureKeepsRefUsable ==
    [][\A r \in Refs :
          (/\ AccessStep(r)
           /\ ret'.err # Nil
           /\ ref[r].ownerDB # "nil"
           /\ ~term[ref[r].ownerDB])
          => /\ ref' = ref /\ db' = db /\ term' = term /\ dbs' = dbs
             /\ PutCause(r, ref[r].ownerDB, TRUE)' = ""
             /\ \A k \in Keys :
                   (/\ last[ref[r].ownerDB][ref[r].id][k] # Never
                    /\ last[ref[r].ownerDB][ref[r].id][k][1] = ValType(r))
                   => GetResult(r, k)'[2] = Nil]_vars

\* C14 witness: a Get of a missing key has failed on an open client, and a
\* Put through the same reference would be accepted.
FailureKeepsRefUsableWitness ==
    /\ ret.op = "Get"
    /\ ret.err = Join(ErrGetFailed, "failed to get key: MDB_NOTFOUND")
    /\ ref[ret.r] = [id |-> ret.id, ownerDB |-> ret.c]
    /\ ~term[ret.c]
    /\ PutCause(ret.r, ret.c, TRUE) = ""

ErrorKinds ==
    /\ (ret.op = "Put" /\ ret.c # "nil") =>
          /\ ret.err = Nil <=> ret.txn = << <<"rw", "commit">> >>
          /\ ret.err # Nil =>
                /\ Is(ret.err, ErrPutFailed) /\ ~Is(ret.err, ErrGetFailed)
                /\ Len(ret.err) = 2 /\ ret.err[2] # ""
    /\ (ret.op = "Get" /\ ret.c # "nil") =>
          /\ ret.err = Nil <=>
                /\ ~term[ret.c]
                /\ Entry(data[ret.c][ret.id], KeyBytes(ret.r, ret.k)) # Never
                /\ Entry(data[ret.c][ret.id], KeyBytes(ret.r, ret.k))[1] = ValType(ret.r)
          /\ ret.err # Nil =>
                /\ Is(ret.err, ErrGetFailed) /\ ~Is(ret.err, ErrPutFailed)
                /\ Len(ret.err) = 2 /\ ret.err[2] # ""
                /\ ret.v = Zero(ValType(ret.r))

\* C16 witness: a Get of an entry stored with another value type has
\* returned the zero value and ErrGetFailed joined with the decode error.
ErrorKindsWitness ==
    /\ ret.op = "Get"
    /\ ret.err = Join(ErrGetFailed, "failed to decode value: gob type mismatch")
    /\ ret.v = 0
    /\ Entry(data[ret.c][ret.id], KeyBytes(ret.r, ret.k)) = <<"int", 1>>

\* Goroutine p returns from the part of initRef that follows initOnce.Do.
AfterDoStep(p) == pc[p] = "afterdo" /\ pc'[p] = "idle"

\* C19: the life of a client's connection. It is absent until the first
\* open; it is set only by the function the guard runs, once, from absent;
\* once set it is never replaced or reset; every bound reference belongs to
\* a client whose connection is set; an Init that finds the connection
\* absent returns before the sub-database is resolved.
ConnLifecycle ==
    [][\A c \in Clients :
          /\ opens[c] = 0 => db[c] = "nil"
          /\ db'[c] # db[c] =>
                /\ db[c] = "nil" /\ db'[c] = "conn"
                /\ once[c] = "running" /\ opens[c] = 0
                /\ \E p \in Procs : pc[p] = "open" /\ call[p].c = c
          /\ db[c] = "conn" => (db'[c] = "conn" /\ opens'[c] = opens[c])
          /\ \A r \in Refs : ref'[r].ownerDB = c => db'[c] = "conn"
          /\ \A p \in Procs :
                (AfterDoStep(p) /\ call[p].c = c /\ db[c] = "nil")
                => /\ ret'.err = <<"failed to initialize database">>
                   /\ dbs' = dbs /\ ref' = ref]_vars

\* C19 witness: two references were bound through the connection that the
\* one open of client A set, and the client was closed afterwards.
ConnLifecycleWitness ==
    /\ ref["r1"].ownerDB = "A" /\ ref["r2"].ownerDB = "A"
    /\ db["A"] = "conn" /\ opens["A"] = 1 /\ once["A"] = "done"
    /\ term["A"]

\* The client of the Init call in which goroutine p takes a step.
ClientOf(p) == IF pc[p] = "idle" THEN call'[p].c ELSE call[p].c

\* C18: clients are independent. A step of Init on one client leaves the
\* guard, the connection and the sub-databases of every other client as
\* they were, and the first Init on a client runs that client's own open,
\* once, whatever the state of the other clients.
HandlesIndependent ==
    [][\A p \in Procs :
          pc'[p] # pc[p] =>
             /\ \A c2 \in Clients \ {ClientOf(p)} :
                   /\ once'[c2] = once[c2] /\ db'[c2] = db[c2]
                   /\ opens'[c2] = opens[c2] /\ term'[c2] = term[c2]
                   /\ dbs'[c2] = dbs[c2] /\ data'[c2] = data[c2]
             /\ (pc[p] = "do" /\ once[call[p].c] = "new") => pc'[p] = "open"
             /\ opens'[ClientOf(p)] <= 1]_vars

\* C18 witness: each of the two clients ran its own open once, and each
\* holds a bound reference.
HandlesIndependentWitness ==
    /\ db["A"] = "conn" /\ db["B"] = "conn"
    /\ opens["A"] = 1 /\ opens["B"] = 1
    /\ ref["r1"].ownerDB = "A" /\ ref["r2"].ownerDB = "B"

\* C20: the names registered on a client never exceed its capacity; only
\* Init registers one; Put and Get register none and Get changes no entry;
\* an Init with a new name on a client whose capacity is used up returns an
\* error, registers nothing and binds no reference.
SubDbsBounded ==
    [][/\ \A c \in Clients : Cardinality(dbs'[c]) <= NumDbs(c)
       /\ dbs' # dbs => \E p \in Procs : AfterDoStep(p)
       /\ \A r \in Refs : AccessStep(r) => dbs' = dbs
       /\ \A r \in Refs : (AccessStep(r) /\ ret'.op = "Get") => data' = data
       /\ \A p \in Procs :
             (/\ AfterDoStep(p)
              /\ db[call[p].c] = "conn"
              /\ call[p].id \notin dbs[call[p].c]
              /\ Cardinality(dbs[call[p].c]) = NumDbs(call[p].c))
             => /\ ret'.err # Nil /\ ~IsPanic(ret'.err)
                /\ dbs' = dbs /\ ref' = ref]_vars

\* C20 witness: on client B, whose default capacity of one name is used,
\* an Init with a second name has returned an error and its reference is
\* unbound.
SubDbsBoundedWitness ==
    /\ ret.op = "Init" /\ ret.c = "B" /\ ret.id = "b"
    /\ ret.err = <<"failed to open db ref">>
    /\ ~term["B"]
    /\ dbs["B"] = {"a"} /\ Cardinality(dbs["B"]) = DefaultNumDbs
    /\ ref[ret.r] = ZeroRef
=============================================================================
